---- MODULE Spec2Model ----
(***************************************************************************)
(* DiagnosticsProvider of the Elm language server                          *)
(* (src/src/providers/diagnostics/diagnosticsProvider.ts): the per-file,   *)
(* per-source diagnostics map, its update / reset / delete operations, the *)
(* debounced publishing and the event handlers the constructor registers.  *)
(*                                                                         *)
(* JavaScript runs every handler to completion; a handler is one action.   *)
(* An `await` ends an action: the continuation is a later action.          *)
(***************************************************************************)
EXTENDS Integers, Sequences, FiniteSets, TLC

(***************************************************************************)
(* Bounds of the model.                                                    *)
(***************************************************************************)
MaxTimers == 2      \* pending debounce timeouts
MaxBuilds == 1      \* elm make invocations in flight
MaxOverlap == 2     \* the same, where the builds of one file overlap

(***************************************************************************)
(* The files, the syntax trees and what the sources report.                *)
(***************************************************************************)
URIs == {"a.elm", "b.elm"}
UriOrder == <<"a.elm", "b.elm">>     \* treeMap iteration order of the forest

\* enum DiagnosticKind, in declaration order
ElmMake == "ElmMake"
ElmAnalyse == "ElmAnalyse"
TypeInference == "TypeInference"
ElmLS == "ElmLS"
DiagnosticKind == {ElmMake, ElmAnalyse, TypeInference, ElmLS}

\* FileChangeType of the language server protocol
Created == "Created"
Changed == "Changed"
Deleted == "Deleted"
FileChangeType == {Created, Changed, Deleted}

\* treeContainer.writeable: a source file of the project and a file of a dependency
Writeable(uri) == uri = "a.elm"

\* the tree of the dependency's file: it never changes
DependencyTree == "unusedDecl"

\* the text documents of the editor (TextDocumentEvents): it opens, changes
\* and saves the source files of the project, never those of a dependency
Documents == {u \in URIs : Writeable(u)}

Trees == {"clean", "typeError", "unusedDecl"}

\* typeInferenceDiagnostics.createDiagnostics(treeContainer, workspace)
TypeInferenceCreateDiagnostics(tree) ==
    IF tree = "typeError" THEN <<"ti1">> ELSE <<>>

\* elmDiagnostics.createDiagnostics(tree, uri, workspace)
ElmLsCreateDiagnostics(tree) ==
    IF tree = "unusedDecl" THEN <<"ls1", "ls2">> ELSE <<>>

\* the lists elm make and elm-analyse report for one file: elm make names
\* the files with problems only, elm-analyse may name a file that has none
MakeLists == {<<"m1">>}
AnalyseLists == {<<>>, <<"a1">>}

(***************************************************************************)
(* JavaScript Map: a sequence of entries in insertion order.               *)
(***************************************************************************)
MapHas(m, k) == \E i \in 1..Len(m) : m[i].key = k
MapIdx(m, k) == CHOOSE i \in 1..Len(m) : m[i].key = k
MapGet(m, k) == m[MapIdx(m, k)].val
MapSet(m, k, v) ==
    IF MapHas(m, k)
    THEN [m EXCEPT ![MapIdx(m, k)] = [key |-> k, val |-> v]]
    ELSE Append(m, [key |-> k, val |-> v])
MapDelete(m, k) == SelectSeq(m, LAMBDA e : e.key # k)
MapKeys(m) == {m[i].key : i \in 1..Len(m)}

\* every Map<uri, Diagnostic[]> a source can report, with lists from L; a
\* source reports the files in the order of UriOrder
ResultMaps(files, L) ==
    {<<>>}
    \cup {<<[key |-> u, val |-> l]>> : u \in files, l \in L}
    \cup {<<[key |-> UriOrder[1], val |-> l], [key |-> UriOrder[2], val |-> k]>> :
             l \in {x \in L : UriOrder[1] \in files},
             k \in {x \in L : UriOrder[2] \in files}}

(***************************************************************************)
(* FileDiagnostics (fileDiagnostics.ts): one list per DiagnosticKind.      *)
(***************************************************************************)
NewFileDiagnostics == [k \in DiagnosticKind |-> <<>>]

\* get(): the lists of all kinds, flattened
FileDiagnosticsGet(fd) ==
    fd[ElmMake] \o fd[ElmAnalyse] \o fd[TypeInference] \o fd[ElmLS]

FileDiagnosticsGetForKind(fd, kind) == fd[kind]

Occurrences(s, x) == Cardinality({i \in 1..Len(s) : s[i] = x})
Elements(s) == {s[i] : i \in 1..Len(s)}
SameElements(s, t) == Len(s) = Len(t) /\ Elements(s) = Elements(t)

\* DiagnosticTag of the language server protocol
Unnecessary == "Unnecessary"
Deprecated == "Deprecated"

\* A diagnostic is written by its name; these are its fields. "ud" and "du"
\* are one diagnostic with its two tags in the two orders, every other name
\* is a diagnostic of its own without tags.
Diagnostic(d) ==
    [code |-> IF d \in {"ud", "du"} THEN "unused" ELSE d,
     message |-> IF d \in {"ud", "du"} THEN "unused" ELSE d,
     severity |-> "Warning",
     range |-> IF d \in {"ud", "du"} THEN "unused" ELSE d,
     tags |-> CASE d = "ud" -> <<Unnecessary, Deprecated>>
                [] d = "du" -> <<Deprecated, Unnecessary>>
                [] OTHER -> <<>>]

\* diagnosticsEquals(a, b): code, message, severity, range and tags are
\* equal, the tags in any order
diagnosticsEquals(a, b) ==
    \/ a = b
    \/ LET x == Diagnostic(a)
           y == Diagnostic(b)
       IN /\ x.code = y.code
          /\ x.message = y.message
          /\ x.severity = y.severity
          /\ x.range = y.range
          /\ SameElements(x.tags, y.tags)

DiagnosticOccurrences(s, x) ==
    Cardinality({i \in 1..Len(s) : diagnosticsEquals(s[i], x)})

SameMultiset(s, t) ==
    \/ s = t
    \/ \A x \in Elements(s) \cup Elements(t) :
           DiagnosticOccurrences(s, x) = DiagnosticOccurrences(t, x)

\* update(kind, diagnostics): replaces the slot, reports whether the
\* flattened output changed as a multiset
FileDiagnosticsUpdate(fd, kind, diagnostics) ==
    LET new == [fd EXCEPT ![kind] = diagnostics]
    IN [fd |-> new,
        changed |-> ~SameMultiset(FileDiagnosticsGet(fd), FileDiagnosticsGet(new))]

(***************************************************************************)
(* State.                                                                  *)
(***************************************************************************)
VARIABLES
    currentDiagnostics,      \* Map<string, FileDiagnostics>
    timers,                  \* uris of the pending debounce timeouts, oldest first
    sent,                    \* connection.sendDiagnostics calls of the last step
    builds,                  \* elm make invocations in flight, oldest first
    updateFileCalls,         \* elmAnalyseDiagnostics.updateFile calls of the last step
    forest,                  \* treeMap of the workspace: uri -> [tree, writeable]
    elmAnalyseTrigger,       \* clientSettings.elmAnalyseTrigger at construction
    disableElmLSDiagnostics, \* this.clientSettings.disableElmLSDiagnostics
    last                     \* the handler that ran last, and its input

vars == <<currentDiagnostics, timers, sent, builds, updateFileCalls, forest,
          elmAnalyseTrigger, disableElmLSDiagnostics, last>>

ElmAnalyseTrigger == {"change", "save", "never"}

\* With "save" the provider is the one built with "change" less its handler of
\* the "change" event, so its runs are among those of "change".
ConstructedWith == {"change", "never"}

\* this.elmAnalyseDiagnostics is resolved unless the trigger is "never"
elmAnalyseDiagnostics == elmAnalyseTrigger # "never"

\* what a handler works on
Here == [cur |-> currentDiagnostics, timers |-> timers, sent |-> <<>>]

(***************************************************************************)
(* The operations of DiagnosticsProvider.                                  *)
(***************************************************************************)
\* a variant that publishes the elm make list alone
sendDiagnosticsElmMakeOnly(cur, uri) ==
    [uri |-> uri,
     diagnostics |-> IF MapHas(cur, uri)
                     THEN FileDiagnosticsGetForKind(MapGet(cur, uri), ElmMake)
                     ELSE <<>>]

\* a variant that publishes the list of one kind, the first that has any
sendDiagnosticsOneKind(cur, uri) ==
    [uri |-> uri,
     diagnostics |->
         IF MapHas(cur, uri)
         THEN LET fd == MapGet(cur, uri)
              IN CASE fd[ElmMake] # <<>> -> FileDiagnosticsGetForKind(fd, ElmMake)
                   [] fd[ElmAnalyse] # <<>> -> FileDiagnosticsGetForKind(fd, ElmAnalyse)
                   [] fd[TypeInference] # <<>> ->
                          FileDiagnosticsGetForKind(fd, TypeInference)
                   [] OTHER -> FileDiagnosticsGetForKind(fd, ElmLS)
         ELSE <<>>]

\* the timeout of one debounce(sendDiagnostics, 50) instance fires
sendDiagnostics(cur, uri) ==
    [uri |-> uri,
     diagnostics |-> IF MapHas(cur, uri)
                     THEN FileDiagnosticsGet(MapGet(cur, uri))
                     ELSE <<>>]

\* a variant that publishes after every update of a tracked file
updateDiagnosticsAlwaysPublish(st, uri, kind, diagnostics) ==
    LET has == MapHas(st.cur, uri)
        upd == FileDiagnosticsUpdate(
                   IF has THEN MapGet(st.cur, uri) ELSE NewFileDiagnostics,
                   kind, diagnostics)
        didUpdate == has \/ Len(diagnostics) > 0
    IN [cur |-> IF has \/ Len(diagnostics) > 0
                THEN MapSet(st.cur, uri, upd.fd)
                ELSE st.cur,
        timers |-> IF didUpdate THEN Append(st.timers, uri) ELSE st.timers,
        sent |-> st.sent]

\* a variant that starts every update from an empty record
updateDiagnosticsFreshRecord(st, uri, kind, diagnostics) ==
    LET has == MapHas(st.cur, uri)
        upd == FileDiagnosticsUpdate(NewFileDiagnostics, kind, diagnostics)
        didUpdate == IF has
                     THEN ~SameMultiset(FileDiagnosticsGet(MapGet(st.cur, uri)),
                                        FileDiagnosticsGet(upd.fd))
                     ELSE Len(diagnostics) > 0
    IN [cur |-> IF has \/ Len(diagnostics) > 0
                THEN MapSet(st.cur, uri, upd.fd)
                ELSE st.cur,
        timers |-> IF didUpdate THEN Append(st.timers, uri) ELSE st.timers,
        sent |-> st.sent]

\* a variant that creates the record of a file on its first update, empty or not
updateDiagnosticsEagerRecord(st, uri, kind, diagnostics) ==
    LET has == MapHas(st.cur, uri)
        upd == FileDiagnosticsUpdate(
                   IF has THEN MapGet(st.cur, uri) ELSE NewFileDiagnostics,
                   kind, diagnostics)
        didUpdate == IF has THEN upd.changed ELSE Len(diagnostics) > 0
    IN [cur |-> MapSet(st.cur, uri, upd.fd),
        timers |-> IF didUpdate THEN Append(st.timers, uri) ELSE st.timers,
        sent |-> st.sent]

\* a variant that sends at once, without a timeout
updateDiagnosticsSendNow(st, uri, kind, diagnostics) ==
    LET has == MapHas(st.cur, uri)
        upd == FileDiagnosticsUpdate(
                   IF has THEN MapGet(st.cur, uri) ELSE NewFileDiagnostics,
                   kind, diagnostics)
        didUpdate == IF has THEN upd.changed ELSE Len(diagnostics) > 0
        cur == IF has \/ Len(diagnostics) > 0
               THEN MapSet(st.cur, uri, upd.fd)
               ELSE st.cur
    IN [cur |-> cur,
        timers |-> st.timers,
        sent |-> IF didUpdate
                 THEN Append(st.sent, [uri |-> uri,
                                       diagnostics |-> FileDiagnosticsGet(upd.fd)])
                 ELSE st.sent]

\* a variant that takes the lists of a file for changed when they differ as
\* lists
updateDiagnosticsByListOrder(st, uri, kind, diagnostics) ==
    LET has == MapHas(st.cur, uri)
        old == IF has THEN MapGet(st.cur, uri) ELSE NewFileDiagnostics
        upd == FileDiagnosticsUpdate(old, kind, diagnostics)
        new == [old EXCEPT ![kind] = diagnostics]
        didUpdate == IF has
                     THEN FileDiagnosticsGet(new) # FileDiagnosticsGet(old)
                     ELSE Len(diagnostics) > 0
    IN [cur |-> IF has \/ Len(diagnostics) > 0
                THEN MapSet(st.cur, uri, upd.fd)
                ELSE st.cur,
        timers |-> IF didUpdate THEN Append(st.timers, uri) ELSE st.timers,
        sent |-> st.sent]

\* a variant that schedules no publish for the update that creates the record
updateDiagnosticsQuietCreation(st, uri, kind, diagnostics) ==
    LET has == MapHas(st.cur, uri)
        upd == FileDiagnosticsUpdate(
                   IF has THEN MapGet(st.cur, uri) ELSE NewFileDiagnostics,
                   kind, diagnostics)
        didUpdate == has /\ upd.changed
    IN [cur |-> IF has \/ Len(diagnostics) > 0
                THEN MapSet(st.cur, uri, upd.fd)
                ELSE st.cur,
        timers |-> IF didUpdate THEN Append(st.timers, uri) ELSE st.timers,
        sent |-> st.sent]

\* every call builds its own debounced function and calls it once: one more
\* timeout, whatever is already pending
updateDiagnostics(st, uri, kind, diagnostics) ==
    LET has == MapHas(st.cur, uri)
        upd == FileDiagnosticsUpdate(
                   IF has THEN MapGet(st.cur, uri) ELSE NewFileDiagnostics,
                   kind, diagnostics)
        didUpdate == IF has THEN upd.changed ELSE Len(diagnostics) > 0
    IN [cur |-> IF has \/ Len(diagnostics) > 0
                THEN MapSet(st.cur, uri, upd.fd)
                ELSE st.cur,
        timers |-> IF didUpdate THEN Append(st.timers, uri) ELSE st.timers,
        sent |-> st.sent]

\* a variant that publishes the empty list for the tracked files only
deleteDiagnosticsIfTracked(st, uri) ==
    [cur |-> MapDelete(st.cur, uri),
     timers |-> st.timers,
     sent |-> IF MapHas(st.cur, uri)
              THEN Append(st.sent, [uri |-> uri, diagnostics |-> <<>>])
              ELSE st.sent]

\* a variant that publishes the empty list and keeps the record
deleteDiagnosticsKeepRecord(st, uri) ==
    [cur |-> st.cur,
     timers |-> st.timers,
     sent |-> Append(st.sent, [uri |-> uri, diagnostics |-> <<>>])]

deleteDiagnostics(st, uri) ==
    [cur |-> MapDelete(st.cur, uri),
     timers |-> st.timers,
     sent |-> Append(st.sent, [uri |-> uri, diagnostics |-> <<>>])]

\* a variant that adds an entry for every tracked file the list leaves out
RECURSIVE ResetFromEveryFile(_, _, _, _)
ResetFromEveryFile(cur, diagnosticList, diagnosticKind, i) ==
    IF i > Len(cur) THEN diagnosticList
    ELSE ResetFromEveryFile(cur,
             IF ~MapHas(diagnosticList, cur[i].key)
             THEN MapSet(diagnosticList, cur[i].key, <<>>)
             ELSE diagnosticList,
             diagnosticKind, i + 1)

\* this.currentDiagnostics.forEach(...) of resetDiagnostics, from entry i on
RECURSIVE ResetFrom(_, _, _, _)
ResetFrom(cur, diagnosticList, diagnosticKind, i) ==
    IF i > Len(cur) THEN diagnosticList
    ELSE ResetFrom(cur,
             IF /\ ~MapHas(diagnosticList, cur[i].key)
                /\ Len(FileDiagnosticsGetForKind(cur[i].val, diagnosticKind)) > 0
             THEN MapSet(diagnosticList, cur[i].key, <<>>)
             ELSE diagnosticList,
             diagnosticKind, i + 1)

\* a variant that adds nothing
resetDiagnosticsAddsNothing(cur, diagnosticList, diagnosticKind) == diagnosticList

resetDiagnostics(cur, diagnosticList, diagnosticKind) ==
    ResetFrom(cur, diagnosticList, diagnosticKind, 1)

\* diagnostics.forEach((diagnostics, uri) => this.updateDiagnostics(uri, kind, diagnostics))
RECURSIVE UpdateEach(_, _, _, _)
UpdateEach(st, diagnostics, kind, i) ==
    IF i > Len(diagnostics) THEN st
    ELSE UpdateEach(
             updateDiagnostics(st, diagnostics[i].key, kind, diagnostics[i].val),
             diagnostics, kind, i + 1)

newElmAnalyseDiagnostics(st, diagnostics) ==
    UpdateEach(st, resetDiagnostics(st.cur, diagnostics, ElmAnalyse), ElmAnalyse, 1)

\* getDiagnostics, after `await this.elmMakeDiagnostics.createDiagnostics(uri)`
integrateElmMake(st, elmMakeDiagnostics) ==
    UpdateEach(st, resetDiagnostics(st.cur, elmMakeDiagnostics, ElmMake), ElmMake, 1)

\* a variant that asks elm-analyse whatever elm make reported
analyseWhenEnabled(cur, uri) ==
    IF elmAnalyseDiagnostics /\ elmAnalyseTrigger # "never" THEN <<uri>> ELSE <<>>

\* getDiagnostics, from elmMakeDiagnosticsForCurrentFile on: the uris passed
\* to elmAnalyseDiagnostics.updateFile
analyseIfClean(cur, uri) ==
    LET elmMakeDiagnosticsForCurrentFile ==
            IF MapHas(cur, uri)
            THEN FileDiagnosticsGetForKind(MapGet(cur, uri), ElmMake)
            ELSE <<>>
    IN IF /\ elmAnalyseDiagnostics
          /\ elmAnalyseTrigger # "never"
          /\ Len(elmMakeDiagnosticsForCurrentFile) = 0
       THEN <<uri>>
       ELSE <<>>

\* a variant that empties the slots of the tree's sources when one of them throws
updateTreeUntilBlanks(st, uri, tree, failing) ==
    updateDiagnostics(updateDiagnostics(st, uri, TypeInference, <<>>), uri, ElmLS, <<>>)

\* onTreeChange when createDiagnostics of the source `failing` throws: the
\* updates before the throw are made, those after it are not
updateTreeUntil(st, uri, tree, failing) ==
    IF failing = TypeInference
    THEN st
    ELSE updateDiagnostics(st, uri, TypeInference, TypeInferenceCreateDiagnostics(tree))

\* a variant that asks elmDiagnostics whatever the setting
updateTreeWhateverSetting(st, uri, tree, disabled) ==
    updateDiagnostics(
        updateDiagnostics(st, uri, TypeInference, TypeInferenceCreateDiagnostics(tree)),
        uri, ElmLS, ElmLsCreateDiagnostics(tree))

\* the TypeInference and ElmLS updates of one tree (constructor and onTreeChange)
updateTree(st, uri, tree, disabled) ==
    LET st1 == updateDiagnostics(st, uri, TypeInference,
                                 TypeInferenceCreateDiagnostics(tree))
    IN IF ~disabled
       THEN updateDiagnostics(st1, uri, ElmLS, ElmLsCreateDiagnostics(tree))
       ELSE st1

\* constructor: workspace.getForest().treeMap.forEach(...) over the writeable trees
RECURSIVE PopulateFrom(_, _, _, _)
PopulateFrom(st, treeMap, disabled, i) ==
    IF i > Len(UriOrder) THEN st
    ELSE PopulateFrom(
             IF treeMap[UriOrder[i]].writeable
             THEN updateTree(st, UriOrder[i], treeMap[UriOrder[i]].tree, disabled)
             ELSE st,
             treeMap, disabled, i + 1)

\* onDidChangeConfiguration, disabled: currentDiagnostics.forEach
RECURSIVE ClearElmLsFrom(_, _)
ClearElmLsFrom(st, i) ==
    IF i > Len(st.cur) THEN st
    ELSE ClearElmLsFrom(updateDiagnostics(st, st.cur[i].key, ElmLS, <<>>), i + 1)

\* a variant that recomputes the files of the map alone
RECURSIVE RecomputeElmLsOfTracked(_, _, _)
RecomputeElmLsOfTracked(st, treeMap, i) ==
    IF i > Len(UriOrder) THEN st
    ELSE RecomputeElmLsOfTracked(
             IF MapHas(st.cur, UriOrder[i])
             THEN updateDiagnostics(st, UriOrder[i], ElmLS,
                      ElmLsCreateDiagnostics(treeMap[UriOrder[i]].tree))
             ELSE st,
             treeMap, i + 1)

\* onDidChangeConfiguration, enabled: treeMap.forEach over the writeable trees
RECURSIVE RecomputeElmLsFrom(_, _, _)
RecomputeElmLsFrom(st, treeMap, i) ==
    IF i > Len(UriOrder) THEN st
    ELSE RecomputeElmLsFrom(
             IF treeMap[UriOrder[i]].writeable
             THEN updateDiagnostics(st, UriOrder[i], ElmLS,
                      ElmLsCreateDiagnostics(treeMap[UriOrder[i]].tree))
             ELSE st,
             treeMap, i + 1)

\* a variant that recomputes whatever the setting
changeConfigurationRecomputes(st, treeMap, disabled) ==
    RecomputeElmLsFrom(st, treeMap, 1)

changeConfiguration(st, treeMap, disabled) ==
    IF disabled THEN ClearElmLsFrom(st, 1) ELSE RecomputeElmLsFrom(st, treeMap, 1)

\* onDidChangeWatchedFiles: deleteDiagnostics for every Deleted change, in order
RECURSIVE DeleteEach(_, _, _)
DeleteEach(st, changes, i) ==
    IF i > Len(changes) THEN st
    ELSE DeleteEach(
             IF changes[i].type = Deleted
             THEN deleteDiagnostics(st, changes[i].uri)
             ELSE st,
             changes, i + 1)

changeWatchedFiles(st, changes) == DeleteEach(st, changes, 1)

(***************************************************************************)
(* The inputs of the handlers.                                             *)
(***************************************************************************)
FileEvent(uri, type) == [uri |-> uri, type |-> type]

\* event.changes: one change of one file, or two changes in one event
WatchedChanges ==
    {<<FileEvent(UriOrder[1], Deleted)>>,
     <<FileEvent(UriOrder[2], Deleted)>>,
     <<FileEvent(UriOrder[1], Changed)>>,
     <<FileEvent(UriOrder[2], Created)>>,
     <<FileEvent(UriOrder[1], Deleted), FileEvent(UriOrder[2], Deleted)>>,
     <<FileEvent(UriOrder[1], Changed), FileEvent(UriOrder[2], Deleted)>>,
     <<FileEvent(UriOrder[2], Deleted), FileEvent(UriOrder[2], Deleted)>>}

\* elm make compiles what the document imports; elm-analyse checks the source
\* files of the project
MakeResults == ResultMaps(URIs, MakeLists)
AnalyseResults == ResultMaps(Documents, AnalyseLists)

\* error: what a call of the handler threw, "" if nothing; info: the handler
\* called connection.console.info; thrown: the error the handler threw to
\* its caller, "" if none; kind: the kind of a single update, "" otherwise;
\* replaced: the list that update found in the slot; source, code and
\* diagnostics: the module a test evaluated, the code it asked for and the
\* diagnostics of that code it got
NoInput == [uri |-> "", result |-> <<>>, changes |-> <<>>, overtaken |-> FALSE,
            error |-> "", info |-> FALSE, thrown |-> "", kind |-> "",
            replaced |-> <<>>, source |-> <<>>, code |-> "", diagnostics |-> <<>>]
Ran(op, input) == [op |-> op] @@ input

(***************************************************************************)
(* Init: the state the constructor leaves.                                 *)
(***************************************************************************)
Init ==
    /\ forest \in {f \in [URIs -> [tree : Trees, writeable : BOOLEAN]] :
                       \A u \in URIs : /\ f[u].writeable = Writeable(u)
                                        /\ (~Writeable(u) => f[u].tree = DependencyTree)}
    /\ elmAnalyseTrigger \in ConstructedWith
    /\ disableElmLSDiagnostics \in BOOLEAN
    /\ LET st == PopulateFrom([cur |-> <<>>, timers |-> <<>>, sent |-> <<>>],
                              forest, disableElmLSDiagnostics, 1)
       IN /\ currentDiagnostics = st.cur
          /\ timers = st.timers
          /\ sent = st.sent
    /\ builds = <<>>
    /\ updateFileCalls = <<>>
    /\ last = Ran("constructor", NoInput)

\* a handler leaves the provider in state st
Commit(st) ==
    \E s \in {st} :
        /\ Len(s.timers) <= MaxTimers
        /\ currentDiagnostics' = s.cur
        /\ timers' = s.timers
        /\ sent' = s.sent

(***************************************************************************)
(* The handlers.                                                           *)
(***************************************************************************)
\* events "open" and "save": getDiagnostics(d, true, ...) up to its first await
OnOpenOrSave(uri, limit) ==
    /\ uri \in Documents
    /\ Len(builds) < limit
    /\ builds' = Append(builds, [uri |-> uri, overtaken |-> FALSE])
    /\ Commit(Here)
    /\ updateFileCalls' = <<>>
    /\ last' = Ran("openOrSave", [NoInput EXCEPT !.uri = uri, !.info = TRUE])
    /\ UNCHANGED <<forest, elmAnalyseTrigger, disableElmLSDiagnostics>>

Without(s, i) == SubSeq(s, 1, i - 1) \o SubSeq(s, i + 1, Len(s))

\* a variant that reads the elm make list of the file before the result of
\* the build is applied
OnElmMakeDoneAnalysesFirst(i, result) ==
    /\ i \in 1..Len(builds)
    /\ \E st \in {integrateElmMake(Here, result)} :
       LET uri == builds[i].uri
       IN /\ Commit(st)
          /\ updateFileCalls' = analyseIfClean(currentDiagnostics, uri)
          /\ builds' = Without(
                 [j \in 1..Len(builds) |->
                     IF j < i /\ builds[j].uri = uri
                     THEN [builds[j] EXCEPT !.overtaken = TRUE]
                     ELSE builds[j]], i)
          /\ last' = Ran("elmMakeDone",
                         [NoInput EXCEPT !.uri = uri, !.result = result,
                                         !.overtaken = builds[i].overtaken])
    /\ UNCHANGED <<forest, elmAnalyseTrigger, disableElmLSDiagnostics>>

\* elm make has answered invocation i: getDiagnostics from its first await to
\* its second. The builds issued earlier for the same file and still in flight
\* are overtaken.
OnElmMakeDone(i, result) ==
    /\ i \in 1..Len(builds)
    /\ \E st \in {integrateElmMake(Here, result)} :
       LET uri == builds[i].uri
       IN /\ Commit(st)
          /\ updateFileCalls' = analyseIfClean(st.cur, uri)
          /\ builds' = Without(
                 [j \in 1..Len(builds) |->
                     IF j < i /\ builds[j].uri = uri
                     THEN [builds[j] EXCEPT !.overtaken = TRUE]
                     ELSE builds[j]], i)
          /\ last' = Ran("elmMakeDone",
                         [NoInput EXCEPT !.uri = uri, !.result = result,
                                         !.overtaken = builds[i].overtaken])
    /\ UNCHANGED <<forest, elmAnalyseTrigger, disableElmLSDiagnostics>>

\* elm make has failed: the await throws and getDiagnostics ends
OnElmMakeFailed(i) ==
    /\ i \in 1..Len(builds)
    /\ builds' = Without(builds, i)
    /\ Commit(Here)
    /\ updateFileCalls' = <<>>
    /\ last' = Ran("elmMakeFailed",
                   [NoInput EXCEPT !.uri = builds[i].uri, !.error = "Error"])
    /\ UNCHANGED <<forest, elmAnalyseTrigger, disableElmLSDiagnostics>>

\* a variant whose handler of "change" is registered whatever the trigger
OnChangeRegisteredAlways(uri) ==
    /\ uri \in Documents
    /\ Commit(Here)
    /\ updateFileCalls' = analyseIfClean(currentDiagnostics, uri)
    /\ last' = Ran("change", [NoInput EXCEPT !.uri = uri, !.info = TRUE])
    /\ UNCHANGED <<builds, forest, elmAnalyseTrigger, disableElmLSDiagnostics>>

\* event "change", registered only when the trigger is "change":
\* getDiagnostics(d, false, ...)
OnChange(uri) ==
    /\ uri \in Documents
    /\ elmAnalyseTrigger = "change"
    /\ Commit(Here)
    /\ updateFileCalls' = analyseIfClean(currentDiagnostics, uri)
    /\ last' = Ran("change", [NoInput EXCEPT !.uri = uri, !.info = TRUE])
    /\ UNCHANGED <<builds, forest, elmAnalyseTrigger, disableElmLSDiagnostics>>

\* elm-analyse emits "new-diagnostics"
OnNewElmAnalyseDiagnostics(result) ==
    /\ elmAnalyseDiagnostics
    /\ Commit(newElmAnalyseDiagnostics(Here, result))
    /\ updateFileCalls' = <<>>
    /\ last' = Ran("newElmAnalyseDiagnostics", [NoInput EXCEPT !.result = result])
    /\ UNCHANGED <<builds, forest, elmAnalyseTrigger, disableElmLSDiagnostics>>

OnDidChangeWatchedFiles(changes) ==
    /\ Commit(changeWatchedFiles(Here, changes))
    /\ updateFileCalls' = <<>>
    /\ last' = Ran("changeWatchedFiles", [NoInput EXCEPT !.changes = changes])
    /\ UNCHANGED <<builds, forest, elmAnalyseTrigger, disableElmLSDiagnostics>>

OnDidChangeConfiguration(disabled) ==
    /\ disableElmLSDiagnostics' = disabled
    /\ Commit(changeConfiguration(Here, forest, disabled))
    /\ updateFileCalls' = <<>>
    /\ last' = Ran("changeConfiguration", NoInput)
    /\ UNCHANGED <<builds, forest, elmAnalyseTrigger>>

\* astProvider.onTreeChange: the forest holds the new tree of the document
OnTreeChange(uri, tree) ==
    /\ uri \in Documents
    /\ forest' = [forest EXCEPT ![uri].tree = tree]
    /\ Commit(updateTree(Here, uri, tree, disableElmLSDiagnostics))
    /\ updateFileCalls' = <<>>
    /\ last' = Ran("treeChange", [NoInput EXCEPT !.uri = uri])
    /\ UNCHANGED <<builds, elmAnalyseTrigger, disableElmLSDiagnostics>>

\* the oldest pending timeout fires: sendDiagnostics(uri) reads the map now
OnTimeout ==
    /\ timers # <<>>
    /\ currentDiagnostics' = currentDiagnostics
    /\ timers' = Tail(timers)
    /\ sent' = <<sendDiagnostics(currentDiagnostics, Head(timers))>>
    /\ updateFileCalls' = <<>>
    /\ last' = Ran("timeout", NoInput)
    /\ UNCHANGED <<builds, forest, elmAnalyseTrigger, disableElmLSDiagnostics>>

\* every handler but that of "open" and "save"
Others ==
    \/ \E i \in 1..Len(builds), result \in MakeResults : OnElmMakeDone(i, result)
    \/ \E i \in 1..Len(builds) : OnElmMakeFailed(i)
    \/ \E uri \in URIs : OnChange(uri)
    \/ \E result \in AnalyseResults : OnNewElmAnalyseDiagnostics(result)
    \/ \E changes \in WatchedChanges : OnDidChangeWatchedFiles(changes)
    \/ \E disabled \in BOOLEAN : OnDidChangeConfiguration(disabled)
    \/ \E uri \in URIs, tree \in Trees : OnTreeChange(uri, tree)
    \/ OnTimeout

Next ==
    \/ \E uri \in URIs : OnOpenOrSave(uri, MaxBuilds)
    \/ Others

Spec == Init /\ [][Next]_vars

\* the same provider where a document is saved again while its build runs
NextOverlapping ==
    \/ \E uri \in URIs : OnOpenOrSave(uri, MaxOverlap)
    \/ Others

SpecOverlapping == Init /\ [][NextOverlapping]_vars

\* what the workspace lookup of onTreeChange throws
LookupErrors == {"NoWorkspaceContainsError", "Error"}

\* a file that changes and is in no workspace: no forest holds its tree
Outside == {"c.elm"}

\* a variant that returns whatever the lookup throws
OnTreeChangeLookupSwallows(uri, error) ==
    /\ uri \in Outside
    /\ Commit(Here)
    /\ updateFileCalls' = <<>>
    /\ last' = Ran("treeChangeLookupFailed",
                   [NoInput EXCEPT !.uri = uri, !.error = error, !.info = TRUE])
    /\ UNCHANGED <<builds, forest, elmAnalyseTrigger, disableElmLSDiagnostics>>

\* astProvider.onTreeChange where elmWorkspaceMatcher.getElmWorkspaceFor
\* throws: NoWorkspaceContainsError is logged and the handler returns, any
\* other error is thrown again
OnTreeChangeLookupFailed(uri, error) ==
    /\ uri \in Outside
    /\ Commit(Here)
    /\ updateFileCalls' = <<>>
    /\ last' = Ran("treeChangeLookupFailed",
                   IF error = "NoWorkspaceContainsError"
                   THEN [NoInput EXCEPT !.uri = uri, !.error = error, !.info = TRUE]
                   ELSE [NoInput EXCEPT !.uri = uri, !.error = error, !.thrown = error])
    /\ UNCHANGED <<builds, forest, elmAnalyseTrigger, disableElmLSDiagnostics>>

\* astProvider.onTreeChange where createDiagnostics of one source throws
OnTreeChangeSourceFailed(uri, tree, failing) ==
    /\ uri \in Documents
    /\ failing \in {TypeInference, ElmLS}
    /\ failing = ElmLS => ~disableElmLSDiagnostics
    /\ forest' = [forest EXCEPT ![uri].tree = tree]
    /\ Commit(updateTreeUntil(Here, uri, tree, failing))
    /\ updateFileCalls' = <<>>
    /\ last' = Ran(IF failing = TypeInference THEN "typeInferenceFailed" ELSE "elmLsFailed",
                   [NoInput EXCEPT !.uri = uri, !.error = "Error", !.thrown = "Error"])
    /\ UNCHANGED <<builds, elmAnalyseTrigger, disableElmLSDiagnostics>>

\* elmAnalyseDiagnostics.updateFile, asked in the last step, rejects: the
\* await is the last statement of getDiagnostics
OnUpdateFileFailed ==
    /\ updateFileCalls # <<>>
    /\ Commit(Here)
    /\ updateFileCalls' = <<>>
    /\ last' = Ran("updateFileFailed",
                   [NoInput EXCEPT !.uri = Head(updateFileCalls), !.error = "Error"])
    /\ UNCHANGED <<builds, forest, elmAnalyseTrigger, disableElmLSDiagnostics>>

\* the same provider where the sources may throw
NextFailing ==
    \/ Next
    \/ \E uri \in URIs, tree \in Trees, failing \in DiagnosticKind :
           OnTreeChangeSourceFailed(uri, tree, failing)
    \/ OnUpdateFileFailed

SpecFailing == Init /\ [][NextFailing]_vars

\* the same provider where the trees of files of no workspace change
NextLookupFailing ==
    \/ Next
    \/ \E uri \in Outside, error \in LookupErrors : OnTreeChangeLookupFailed(uri, error)

SpecLookupFailing == Init /\ [][NextLookupFailing]_vars

(***************************************************************************)
(* updateDiagnostics alone: one file receives lists of two kinds, among    *)
(* them permutations of one another, lists that differ in the number of    *)
(* copies of a diagnostic, and lists whose diagnostics differ in the order *)
(* of their tags only.                                                     *)
(***************************************************************************)
UpdateKinds == {ElmMake, ElmLS}
UpdateLists ==
    {<<>>, <<"ls1">>, <<"ls1", "ls1">>, <<"ls1", "ls2">>, <<"ls2", "ls1">>,
     <<"ud">>, <<"du">>}

OnUpdate(uri, kind, diagnostics) ==
    /\ Commit(updateDiagnostics(Here, uri, kind, diagnostics))
    /\ updateFileCalls' = <<>>
    /\ last' = Ran("update", [NoInput EXCEPT
                                 !.uri = uri, !.kind = kind,
                                 !.replaced =
                                     IF MapHas(currentDiagnostics, uri)
                                     THEN MapGet(currentDiagnostics, uri)[kind]
                                     ELSE <<>>,
                                 !.result = <<[key |-> uri, val |-> diagnostics]>>])
    /\ UNCHANGED <<builds, forest, elmAnalyseTrigger, disableElmLSDiagnostics>>

NextUpdate ==
    \/ \E kind \in UpdateKinds, diagnostics \in UpdateLists :
           OnUpdate(UriOrder[1], kind, diagnostics)
    \/ OnTimeout

SpecUpdate == Init /\ [][NextUpdate]_vars

(***************************************************************************)
(* The rule engine on one module, as the tests of elmDiagnostics call it.  *)
(* A module is its exposing list, the names of its top-level declarations  *)
(* in the order of the file, and for every declaration the names that      *)
(* occur in its defining expression.                                       *)
(***************************************************************************)
\* imports: the import clauses in the order of the file, each with its
\* alias ("" if none) and its exposing clause; qualified: the qualifiers of
\* the qualified references of the module, each with the position it has;
\* types: the custom types in the order of the file; constructed: the value
\* constructors that occur in an expression; matched: those that occur in a
\* pattern; prefixed: the binary operators in prefix form in the order of
\* the file, each with the number of arguments it is applied to; aliases:
\* the names of the type aliases in the order of the file; ports: the port
\* declarations. references has the names that occur in the definition of a
\* type or a type alias too, and the type names of a declaration's signature.
Module(all, names, declarations, references) ==
    [exposing |-> [all |-> all, names |-> names],
     declarations |-> declarations,
     references |-> references,
     imports |-> <<>>,
     qualified |-> {},
     types |-> <<>>,
     constructed |-> {},
     matched |-> {},
     prefixed |-> <<>>,
     aliases |-> <<>>,
     ports |-> <<>>]

\* port <name> : <signature>, the signature by the type names in it
Port(name, signature) == [name |-> name, signature |-> signature]

\* (<operator>) applied to <arguments> arguments
Prefix(operator, arguments) == [operator |-> operator, arguments |-> arguments]

\* type <name> = <constructors>; exposed: "all" when the exposing list has
\* <name>(..), "type" when it has <name>, "no" when it has neither
Type(name, constructors, exposed) ==
    [name |-> name, constructors |-> constructors, exposed |-> exposed]

\* import <name> [as <alias>] [exposing (<exposing>)]
Import(name, alias, hasExposing, exposing) ==
    [name |-> name, alias |-> alias, hasExposing |-> hasExposing, exposing |-> exposing]
\* <qualifier>.<something> as an expression, a pattern constructor or a type
Qualified(qualifier, position) == [qualifier |-> qualifier, position |-> position]
Positions == {"expression", "pattern", "type"}

Declared(m) == Elements(m.declarations)

\* the roots of the resolver: the exposing list, or every declaration
Roots(m) == IF m.exposing.all THEN Declared(m) ELSE m.exposing.names \cap Declared(m)

\* the declarations d refers to, itself excluded
RefersTo(m, d) == (m.references[d] \cap Declared(m)) \ {d}

\* computeUsed: the declarations reachable from the roots
RECURSIVE ReachableFrom(_, _)
ReachableFrom(m, seen) ==
    LET more == UNION {RefersTo(m, d) : d \in seen} \ seen
    IN IF more = {} THEN seen ELSE ReachableFrom(m, seen \cup more)

computeUsed(m) == ReachableFrom(m, Roots(m))

\* the rule unused_top_level: one diagnostic for every declaration the
\* resolver did not reach, in the order of the file
unusedTopLevel(m) ==
    LET unused == SelectSeq(m.declarations, LAMBDA d : d \notin computeUsed(m))
    IN [i \in 1..Len(unused) |-> [code |-> "unused_top_level", name |-> unused[i]]]

\* the rule unused_import: one diagnostic for every import without alias
\* and without exposing clause whose module name qualifies nothing
unusedImport(m) ==
    LET unused == SelectSeq(m.imports,
                            LAMBDA i : /\ i.alias = ""
                                       /\ ~i.hasExposing
                                       /\ \A q \in m.qualified : q.qualifier # i.name)
    IN [i \in 1..Len(unused) |-> [code |-> "unused_import", name |-> unused[i].name]]

\* the value constructors of the types in the order of the file, each with
\* its type
RECURSIVE ConstructorsFrom(_, _)
ConstructorsFrom(types, i) ==
    IF i > Len(types) THEN <<>>
    ELSE [j \in 1..Len(types[i].constructors) |->
             [name |-> types[i].constructors[j], type |-> types[i]]]
         \o ConstructorsFrom(types, i + 1)

\* the rule unused_value_constructor: one diagnostic for every constructor
\* that occurs in no expression and whose type is not exposed with (..); an
\* occurrence in a pattern is not a use
unusedValueConstructor(m) ==
    LET unused == SelectSeq(ConstructorsFrom(m.types, 1),
                            LAMBDA c : /\ ~m.exposing.all
                                       /\ c.type.exposed # "all"
                                       /\ c.name \notin m.constructed)
    IN [i \in 1..Len(unused) |->
           [code |-> "unused_value_constructor", name |-> unused[i].name]]

\* the resolver on declarations, types and aliases alike: the roots are the
\* exposing list and, for the ports, the type names of their signatures
Nodes(m) ==
    Declared(m) \cup Elements(m.aliases) \cup {m.types[i].name : i \in 1..Len(m.types)}
PortRoots(m) == UNION {m.ports[i].signature : i \in 1..Len(m.ports)}
TypeRoots(m) ==
    IF m.exposing.all THEN Nodes(m)
    ELSE (m.exposing.names \cup PortRoots(m)) \cap Nodes(m)
RECURSIVE UsedFrom(_, _)
UsedFrom(m, seen) ==
    LET more == (UNION {m.references[d] : d \in seen} \cap Nodes(m)) \ seen
    IN IF more = {} THEN seen ELSE UsedFrom(m, seen \cup more)

\* the rule unused_type_alias: one diagnostic for every type alias the
\* resolver did not reach
unusedTypeAlias(m) ==
    LET unused == SelectSeq(m.aliases, LAMBDA a : a \notin UsedFrom(m, TypeRoots(m)))
    IN [i \in 1..Len(unused) |-> [code |-> "unused_type_alias", name |-> unused[i]]]

\* the rule no_uncurried_prefix: one diagnostic for every operator in
\* prefix form that is applied to exactly two arguments
noUncurriedPrefix(m) ==
    LET full == SelectSeq(m.prefixed, LAMBDA a : a.arguments = 2)
    IN [i \in 1..Len(full) |-> [code |-> "no_uncurried_prefix", name |-> full[i].operator]]

\* elmDiagnostics.createDiagnostics(tree, uri, workspace) on a module: the
\* rules in their fixed order
createDiagnostics(m) ==
    unusedTopLevel(m) \o unusedImport(m) \o unusedTypeAlias(m)
        \o unusedValueConstructor(m) \o noUncurriedPrefix(m)

\* the module of the test "unused function" with baz in its exposing list
UnusedFunctionBazExposed ==
    Module(FALSE, {"foo", "baz"}, <<"foo", "baz", "some">>,
           [d \in {"foo", "baz", "some"} |-> IF d = "foo" THEN {"some"} ELSE {}])

\* test "unused function": module Bar exposing (foo); foo = some; baz = 2; some = 1
UnusedFunction ==
    Module(FALSE, {"foo"}, <<"foo", "baz", "some">>,
           [d \in {"foo", "baz", "some"} |-> IF d = "foo" THEN {"some"} ELSE {}])

\* the module of the test "only used in self" with bar in its exposing list
OnlyUsedInSelfBarExposed ==
    Module(FALSE, {"foo", "Some", "bar"}, <<"Some", "foo", "bar">>,
           [d \in {"Some", "foo", "bar"} |-> IF d = "bar" THEN {"bar", "foo"} ELSE {}])

\* test "only used in self": module Bar exposing (foo, Some(..));
\* type Some = Thing; foo = 1; bar = bar + foo
OnlyUsedInSelf ==
    Module(FALSE, {"foo", "Some"}, <<"Some", "foo", "bar">>,
           [d \in {"Some", "foo", "bar"} |-> IF d = "bar" THEN {"bar", "foo"} ELSE {}])

\* the tests of "unused import": module Foo exposing (..) with one import
\* of Bar and one declaration
FooExposingAll(name) == Module(TRUE, {}, <<name>>, [d \in {name} |-> {}])
\* "used as qualified": import Bar; foo = Bar.add 1
ImportUsedAsQualified ==
    [FooExposingAll("foo") EXCEPT !.imports = <<Import("Bar", "", FALSE, {})>>,
                                  !.qualified = {Qualified("Bar", "expression")}]
\* "used as qualified in pattern": import Bar; z a = case a of Bar.Z -> 1
ImportUsedInPattern ==
    [FooExposingAll("z") EXCEPT !.imports = <<Import("Bar", "", FALSE, {})>>,
                                !.qualified = {Qualified("Bar", "pattern")}]
\* "used in type reference": import Bar; foo : Bar.Thing; foo = bar
ImportUsedInTypeReference ==
    [Module(TRUE, {}, <<"foo">>, [d \in {"foo"} |-> {"bar"}])
        EXCEPT !.imports = <<Import("Bar", "", FALSE, {})>>,
               !.qualified = {Qualified("Bar", "type")}]
\* "used in type alias": import Bar; type alias Thing = { name : Bar.Name }
ImportUsedInTypeAlias ==
    [FooExposingAll("Thing") EXCEPT !.imports = <<Import("Bar", "", FALSE, {})>>,
                                    !.qualified = {Qualified("Bar", "type")}]
\* "unused but has alias": import Bar as B; foo = 1
ImportUnusedButHasAlias ==
    [FooExposingAll("foo") EXCEPT !.imports = <<Import("Bar", "B", FALSE, {})>>]
\* "unused but has exposing": import Bar exposing (baz); foo = 1
ImportUnusedButHasExposing ==
    [FooExposingAll("foo") EXCEPT !.imports = <<Import("Bar", "", TRUE, {"baz"})>>]
\* the module of the test "unused import" with an alias for Bar
ImportUnusedAliased ==
    [FooExposingAll("foo") EXCEPT !.imports = <<Import("Bar", "B", FALSE, {})>>]
\* "unused import": import Bar; foo = 1
ImportUnused ==
    [FooExposingAll("foo") EXCEPT !.imports = <<Import("Bar", "", FALSE, {})>>]
ImportTests ==
    {ImportUsedAsQualified, ImportUsedInPattern, ImportUsedInTypeReference,
     ImportUsedInTypeAlias, ImportUnusedButHasAlias, ImportUnusedButHasExposing,
     ImportUnused}

\* the modules with an import of Bar, with or without alias and exposing
\* clause, with or without an import of Baz after it, and any qualified
\* references by Bar, B and Baz
ImportsOfBar ==
    {Import("Bar", a, e, IF e THEN {"baz"} ELSE {}) : a \in {"", "B"}, e \in BOOLEAN}
ImportLists ==
    {<<i>> : i \in ImportsOfBar}
    \cup {<<i, Import("Baz", "", FALSE, {})>> : i \in ImportsOfBar}
QualifiedReferences ==
    SUBSET ({Qualified("Bar", p) : p \in Positions}
            \cup {Qualified("B", "expression"), Qualified("Baz", "expression")})
ImportSources ==
    {[FooExposingAll("foo") EXCEPT !.imports = i, !.qualified = q] :
        i \in ImportLists, q \in QualifiedReferences}

\* the tests of "unused value constructor"
FooExposing(names, declarations) ==
    Module(FALSE, names, declarations, [d \in Elements(declarations) |-> {}])
\* "unused but exposed": module Foo exposing (Foo(..)); type Foo = Bar
ConstructorUnusedButExposed ==
    [FooExposing({"Foo"}, <<>>) EXCEPT !.types = <<Type("Foo", <<"Bar">>, "all")>>]
\* "used and not exposed": module Foo exposing (foo); type Foo = Bar Int; foo = Bar 1
ConstructorUsedAndNotExposed ==
    [FooExposing({"foo"}, <<"foo">>) EXCEPT !.types = <<Type("Foo", <<"Bar">>, "no")>>,
                                            !.constructed = {"Bar"}]
\* the module of the test "unused and not exposed" with Foo(..) exposed
ConstructorMatchedAndExposed ==
    [FooExposing({"foo", "Foo"}, <<"foo">>)
        EXCEPT !.types = <<Type("Foo", <<"Bar">>, "all")>>, !.matched = {"Bar"}]
\* "unused and not exposed": module Foo exposing (foo); type Foo = Bar Int;
\* foo (Bar i) = i
ConstructorUnusedAndNotExposed ==
    [FooExposing({"foo"}, <<"foo">>) EXCEPT !.types = <<Type("Foo", <<"Bar">>, "no")>>,
                                            !.matched = {"Bar"}]
\* "used value constructor": module Bar exposing (foo); type Some = Thing; foo = Thing
ConstructorUsed ==
    [FooExposing({"foo"}, <<"foo">>) EXCEPT !.types = <<Type("Some", <<"Thing">>, "no")>>,
                                            !.constructed = {"Thing"}]
\* the module of the test "unused value constructor not exposed" with
\* Some(..) exposed
ConstructorsExposed ==
    [FooExposing({"foo", "Some"}, <<>>)
        EXCEPT !.types = <<Type("Some", <<"Thing", "Other">>, "all")>>]
\* "unused value constructor not exposed": module Bar exposing (foo, Some);
\* type Some = Thing | Other
ConstructorsNotExposed ==
    [FooExposing({"foo", "Some"}, <<>>)
        EXCEPT !.types = <<Type("Some", <<"Thing", "Other">>, "type")>>]
\* "exposed value constructor": module Bar exposing (foo, Some(..));
\* type Some = Thing; foo = 1
ConstructorExposed ==
    [FooExposing({"foo", "Some"}, <<"foo">>)
        EXCEPT !.types = <<Type("Some", <<"Thing">>, "all")>>]
ConstructorTests ==
    {ConstructorUnusedButExposed, ConstructorUsedAndNotExposed,
     ConstructorUnusedAndNotExposed, ConstructorUsed, ConstructorsNotExposed,
     ConstructorExposed}

\* the modules with the type Some = Thing | Other, exposed or not, whose
\* constructors occur in any expressions and patterns
ConstructorNames == {"Thing", "Other"}
ConstructorSources ==
    {[Module(all, IF e = "no" THEN {"foo"} ELSE {"foo", "Some"}, <<"foo">>,
             [d \in {"foo"} |-> {}])
         EXCEPT !.types = <<Type("Some", <<"Thing", "Other">>, e)>>,
                !.constructed = c, !.matched = p] :
        all \in BOOLEAN, e \in {"no", "type", "all"},
        c \in SUBSET ConstructorNames, p \in SUBSET ConstructorNames}

\* the tests of "fully applied operator as prefix"
\* the module of the test "prefix as application with two args" with (+) alone
PrefixAlone == [FooExposingAll("foo") EXCEPT !.prefixed = <<Prefix("+", 0)>>]
\* "prefix as application with two args": foo = (+) 1 2
PrefixWithTwoArgs == [FooExposingAll("foo") EXCEPT !.prefixed = <<Prefix("+", 2)>>]
\* "prefix as application with one arg": foo = (+) 1
PrefixWithOneArg == [FooExposingAll("foo") EXCEPT !.prefixed = <<Prefix("+", 1)>>]

\* the modules with (+) in prefix form, with or without (++) in prefix
\* form after it, each applied to up to MaxArguments arguments
MaxArguments == 2
PrefixLists ==
    {<<Prefix("+", n)>> : n \in 0..MaxArguments}
    \cup {<<Prefix("+", n), Prefix("++", k)>> : n \in 0..MaxArguments, k \in 0..MaxArguments}
PrefixSources == {[FooExposingAll("foo") EXCEPT !.prefixed = a] : a \in PrefixLists}

\* the tests of "unused type alias"
\* "unused but exposed": module Foo exposing (Bar); type alias Bar = Int
AliasUnusedButExposed ==
    [Module(FALSE, {"Bar"}, <<>>, [d \in {"Bar"} |-> {}]) EXCEPT !.aliases = <<"Bar">>]
\* "used in signature": module Foo exposing (foo); type alias Bar = Int;
\* foo : Bar; foo = 1
AliasUsedInSignature ==
    [Module(FALSE, {"foo"}, <<"foo">>,
            [d \in {"foo", "Bar"} |-> IF d = "foo" THEN {"Bar"} ELSE {}])
        EXCEPT !.aliases = <<"Bar">>]
\* "used as function": module Foo exposing (foo); type alias Person = {...};
\* foo = Person "John" 12
AliasUsedAsFunction ==
    [Module(FALSE, {"foo"}, <<"foo">>,
            [d \in {"foo", "Person"} |-> IF d = "foo" THEN {"Person"} ELSE {}])
        EXCEPT !.aliases = <<"Person">>]
\* the module of the test "used in port" with a port of String
AliasNotInPort ==
    [Module(FALSE, {"foo"}, <<>>, [d \in {"Person"} |-> {}])
        EXCEPT !.aliases = <<"Person">>, !.ports = <<Port("foo", {"String", "Cmd"})>>]
\* "used in port": module Foo exposing (foo); type alias Person = {...};
\* port foo : Person -> Cmd msg
AliasUsedInPort ==
    [Module(FALSE, {"foo"}, <<>>, [d \in {"Person"} |-> {}])
        EXCEPT !.aliases = <<"Person">>, !.ports = <<Port("foo", {"Person", "Cmd"})>>]
\* "used alias in record": module Foo exposing (InputInterfaces);
\* type alias InputFiles = List String;
\* type alias InputInterfaces = List ( String, InputFiles )
AliasUsedInRecord ==
    [Module(FALSE, {"InputInterfaces"}, <<>>,
            [d \in {"InputFiles", "InputInterfaces"} |->
                IF d = "InputInterfaces" THEN {"List", "String", "InputFiles"}
                ELSE {"List", "String"}])
        EXCEPT !.aliases = <<"InputFiles", "InputInterfaces">>]
\* "used alias in type": module Foo exposing (Patch(..));
\* type alias InputFiles = List String; type Patch = OnFiles InputFiles
AliasUsedInType ==
    [Module(FALSE, {"Patch"}, <<>>,
            [d \in {"InputFiles", "Patch"} |->
                IF d = "Patch" THEN {"InputFiles"} ELSE {"List", "String"}])
        EXCEPT !.aliases = <<"InputFiles">>,
               !.types = <<Type("Patch", <<"OnFiles">>, "all")>>]
\* "unused type alias": module Foo exposing (foo); type alias Person = {...}; foo = 1
AliasUnused ==
    [Module(FALSE, {"foo"}, <<"foo">>, [d \in {"foo", "Person"} |-> {}])
        EXCEPT !.aliases = <<"Person">>]
AliasTests ==
    {AliasUnusedButExposed, AliasUsedInSignature, AliasUsedAsFunction,
     AliasUsedInPort, AliasUsedInRecord, AliasUsedInType, AliasUnused}

\* the modules with the aliases Person and Age and the declaration foo,
\* with any references between them, with or without a port send whose
\* signature has any of the two aliases
AliasNames == {"Person", "Age"}
AliasReferences ==
    {[d \in {"foo", "Person", "Age"} |->
         CASE d = "foo" -> f [] d = "Person" -> p [] OTHER -> a] :
        f \in SUBSET AliasNames, p \in SUBSET AliasNames, a \in SUBSET {"Person"}}
AliasPorts == {<<>>} \cup {<<Port("send", s \cup {"Cmd"})>> : s \in SUBSET AliasNames}
AliasExposingLists ==
    {[all |-> TRUE, names |-> {}], [all |-> FALSE, names |-> {"foo"}],
     [all |-> FALSE, names |-> {"foo", "Person"}]}
AliasSources ==
    {[Module(e.all, e.names, <<"foo">>, r)
         EXCEPT !.aliases = <<"Person", "Age">>, !.ports = p] :
        e \in AliasExposingLists, r \in AliasReferences, p \in AliasPorts}

\* the modules of three declarations foo, bar and baz
Names == {"foo", "bar", "baz"}
ExposingLists ==
    {[all |-> TRUE, names |-> {}]}
    \cup {[all |-> FALSE, names |-> n] : n \in (SUBSET Names) \ {{}}}
Sources ==
    {UnusedFunction, OnlyUsedInSelf}
    \cup {Module(e.all, e.names, <<"foo", "bar", "baz">>, r) :
              e \in ExposingLists, r \in [Names -> SUBSET Names]}
    \cup ImportTests \cup ImportSources
    \cup ConstructorTests \cup ConstructorSources
    \cup PrefixSources
    \cup AliasTests \cup AliasSources
Codes ==
    {"unused_top_level", "unused_import", "unused_type_alias",
     "unused_value_constructor", "no_uncurried_prefix"}

\* testDiagnostics(source, code, expectedDiagnostics): the diagnostics of
\* one code that createDiagnostics gives for the module; every test calls
\* it once, on a tree of its own
testDiagnostics(source, code) ==
    /\ last.op = "constructor"
    /\ last' = Ran("testDiagnostics",
                   [NoInput EXCEPT
                      !.source = source, !.code = code,
                      !.diagnostics = SelectSeq(createDiagnostics(source),
                                                LAMBDA d : d.code = code)])
    /\ UNCHANGED <<currentDiagnostics, timers, sent, builds, updateFileCalls,
                   forest, elmAnalyseTrigger, disableElmLSDiagnostics>>

InitTest ==
    /\ Init
    /\ \A u \in URIs : forest[u].tree = DependencyTree
    /\ elmAnalyseTrigger = "never"
    /\ disableElmLSDiagnostics

NextTest ==
    /\ last.op = "constructor"
    /\ \E source \in Sources, code \in Codes : testDiagnostics(source, code)

SpecTest == InitTest /\ [][NextTest]_vars

(***************************************************************************)
(* What the claims speak of.                                               *)
(***************************************************************************)
Tracked(u) == MapHas(currentDiagnostics, u)
Record(u) == IF Tracked(u) THEN MapGet(currentDiagnostics, u) ELSE NewFileDiagnostics
Slot(u, k) == Record(u)[k]
Merged(u) ==
    LET r == Record(u)
    IN r[ElmMake] \o r[ElmAnalyse] \o r[TypeInference] \o r[ElmLS]
Pending(u) == Occurrences(timers, u)
Integrated == {"elmMakeDone", "newElmAnalyseDiagnostics"}
KindOf(op) == IF op = "elmMakeDone" THEN ElmMake ELSE ElmAnalyse
IntegratedKind == KindOf(last.op)
IntegratedSlot(u) == Slot(u, IntegratedKind)
Mentioned(u) == MapHas(last.result, u)
A == UriOrder[1]
B == UriOrder[2]

\* C1: the requests for one uri within one debounce window coalesce: a uri
\* never has two emissions pending, a later request replaces the pending one.
C1_OnePendingEmissionPerUri == \A u \in URIs : Pending(u) <= 1

\* C2: a debounced emission carries the merged state the map holds for the
\* uri when the timeout fires, whatever it held when the publish was requested.
C2_EmissionReadsStateAtFiring ==
    last.op = "timeout" =>
        /\ Len(sent) = 1
        /\ sent[1].diagnostics = Merged(sent[1].uri)

\* an emission for a.elm went out while a later request for a.elm is still
\* pending: what that later update wrote is in the emission
C2_Witness ==
    /\ last.op = "timeout"
    /\ sent[1].uri = A
    /\ Pending(A) >= 1
    /\ Len(sent[1].diagnostics) >= 2

\* C3: a handler that leaves the merged output of a uri the same multiset
\* schedules no publish for it; so update(uri, kind, X) twice in a row
\* schedules nothing the second time.
C3_NoChangeNoPublish ==
    [][(last'.op # "timeout" /\ timers' # timers) =>
         \A u \in URIs :
             Pending(u)' # Pending(u) => ~SameMultiset(Merged(u), Merged(u)')]_vars

\* elm-analyse reported [a1] for a.elm when the slot already held [a1]
C3_Witness ==
    /\ last.op = "newElmAnalyseDiagnostics"
    /\ last.result = <<[key |-> A, val |-> <<"a1">>]>>
    /\ Slot(A, ElmAnalyse) = <<"a1">>
    /\ Slot(A, ElmMake) # <<>>
    /\ timers = <<>>

\* the slots a handler writes with updateDiagnostics, and the records it deletes
Touched(u, k) ==
    CASE last.op = "elmMakeDone" -> k = ElmMake
      [] last.op = "newElmAnalyseDiagnostics" -> k = ElmAnalyse
      [] last.op = "treeChange" ->
             /\ u = last.uri
             /\ k \in {TypeInference} \cup (IF disableElmLSDiagnostics THEN {} ELSE {ElmLS})
      [] last.op = "changeConfiguration" -> k = ElmLS
      [] last.op = "changeWatchedFiles" ->
             \E i \in 1..Len(last.changes) : last.changes[i] = FileEvent(u, Deleted)
      [] OTHER -> FALSE

\* the lists a handler has given to updateDiagnostics are the slots' contents
LatestApplied ==
    CASE last.op \in Integrated ->
             \A i \in 1..Len(last.result) :
                 Slot(last.result[i].key, KindOf(last.op)) = last.result[i].val
      [] last.op = "treeChange" ->
             /\ Slot(last.uri, TypeInference)
                    = TypeInferenceCreateDiagnostics(forest[last.uri].tree)
             /\ disableElmLSDiagnostics
                    \/ Slot(last.uri, ElmLS) = ElmLsCreateDiagnostics(forest[last.uri].tree)
      [] OTHER -> TRUE

\* C4: the diagnostics of a file are the lists of its kinds, each the latest
\* list given to an update of that file and kind: a step changes a slot only
\* if its handler updates that kind of that file or deletes the file, and the
\* lists it was given are then what the slots hold.
C4_SlotChangesOnlyByItsUpdate ==
    [][currentDiagnostics' # currentDiagnostics =>
          /\ LatestApplied'
          /\ \A u \in URIs : \A k \in DiagnosticKind :
                 Slot(u, k)' # Slot(u, k) => Touched(u, k)']_vars

\* elm-analyse reported [a1] for a.elm: the elm make lists of both files and
\* the ElmLS list of b.elm are still there
C4_Witness ==
    /\ last.op = "newElmAnalyseDiagnostics"
    /\ last.result = <<[key |-> A, val |-> <<"a1">>]>>
    /\ Slot(A, ElmAnalyse) = <<"a1">>
    /\ Slot(A, ElmMake) = <<"m1">>
    /\ Slot(B, ElmMake) = <<"m1">>
    /\ Pending(A) >= 1

DeletedChanges(changes) == SelectSeq(changes, LAMBDA c : c.type = Deleted)

\* C5: a watched-files event removes the record of every file it reports
\* Deleted and sends one empty list for each such change, tracked or not; its
\* changes of the other types leave the map alone and send nothing.
C5_DeleteRemovesAndPublishesEmpty ==
    [][last'.op = "changeWatchedFiles" =>
          LET del == DeletedChanges(last'.changes)
          IN /\ currentDiagnostics'
                    = SelectSeq(currentDiagnostics,
                                LAMBDA e : \A i \in 1..Len(del) : del[i].uri # e.key)
             /\ sent' = [i \in 1..Len(del) |->
                            [uri |-> del[i].uri, diagnostics |-> <<>>]]
             /\ timers' = timers]_vars

\* b.elm was reported Deleted twice in one event: the second time it had no
\* record, and two empty lists went out
C5_Witness ==
    /\ last.op = "changeWatchedFiles"
    /\ last.changes = <<FileEvent(B, Deleted), FileEvent(B, Deleted)>>
    /\ Len(sent) = 2
    /\ Tracked(A)

\* C6: a file without a record gets one only with a non-empty list, and a
\* step that leaves it without a record schedules no publish for it; the
\* constructor too creates no record of empty lists.
C6_RecordCreatedByNonEmptyUpdate ==
    /\ \A u \in URIs : Tracked(u) => \E k \in DiagnosticKind : Slot(u, k) # <<>>
    /\ [][\A u \in URIs :
              ~Tracked(u) =>
                  /\ Tracked(u)' => \E k \in DiagnosticKind : Slot(u, k)' # <<>>
                  /\ (~Tracked(u)' /\ last'.op # "timeout") => Pending(u)' = Pending(u)]_vars

\* elm-analyse reported the empty list for a.elm, which had no record
C6_Witness ==
    /\ last.op = "newElmAnalyseDiagnostics"
    /\ last.result = <<[key |-> A, val |-> <<>>]>>
    /\ ~Tracked(A)
    /\ timers = <<>>

\* C7: the elm make results of one file are applied in the order its builds
\* were issued: when a build completes after a later build of the same file
\* has, the elm make lists stay those of the later build.
C7_OvertakenBuildLeavesElmMake ==
    [][(last'.op = "elmMakeDone" /\ last'.overtaken) =>
          \A u \in URIs : Slot(u, ElmMake)' = Slot(u, ElmMake)]_vars

\* C8: the integration of one result set is one step: within it nothing is
\* sent, no timeout is taken, no record is deleted and no other kind is
\* written, and after it every list of the result set is in its slot.
C8_IntegrationIsOneStep ==
    [][last'.op \in Integrated =>
          /\ sent' = <<>>
          /\ Len(timers') >= Len(timers)
          /\ SubSeq(timers', 1, Len(timers)) = timers
          /\ \A u \in URIs : Tracked(u) => Tracked(u)'
          /\ LatestApplied'
          /\ \A u \in URIs : \A k \in DiagnosticKind :
                 k # IntegratedKind' => Slot(u, k)' = Slot(u, k)]_vars

\* elm-analyse reported while a build was in flight and a timeout pending
C8_Witness ==
    /\ last.op = "newElmAnalyseDiagnostics"
    /\ last.result = <<[key |-> A, val |-> <<"a1">>]>>
    /\ builds # <<>>
    /\ Len(timers) = MaxTimers
    /\ Slot(A, ElmAnalyse) = <<"a1">>
    /\ Slot(B, ElmMake) = <<"m1">>

\* the entries resetDiagnostics adds to diagnosticList
Added(diagnosticList, out) ==
    {out[i].key : i \in (Len(diagnosticList) + 1)..Len(out)}

\* C9: whatever map a source reports and whatever the kind, resetDiagnostics
\* keeps the entries of the map as they are and adds one empty list for each
\* tracked file that holds a non-empty list of the kind and is not in the map,
\* and for no other file.
C9_ResetAddsEmptyForStaleFiles ==
    \A diagnosticList \in MakeResults \cup AnalyseResults :
        \A kind \in DiagnosticKind :
            LET out == resetDiagnostics(currentDiagnostics, diagnosticList, kind)
                stale == {u \in URIs : /\ Tracked(u)
                                       /\ Slot(u, kind) # <<>>
                                       /\ ~MapHas(diagnosticList, u)}
            IN /\ Len(out) = Len(diagnosticList) + Cardinality(stale)
               /\ SubSeq(out, 1, Len(diagnosticList)) = diagnosticList
               /\ Added(diagnosticList, out) = stale
               /\ \A i \in (Len(diagnosticList) + 1)..Len(out) : out[i].val = <<>>

\* both files are tracked, b.elm holds an elm make list and a.elm does not:
\* for the empty map resetDiagnostics adds b.elm and not a.elm
C9_Witness ==
    /\ Tracked(A)
    /\ Slot(A, ElmMake) = <<>>
    /\ Slot(B, ElmMake) = <<"m1">>
    /\ resetDiagnostics(currentDiagnostics, <<>>, ElmMake)
           = <<[key |-> B, val |-> <<>>]>>

\* C10: after a result set of elm make or elm-analyse is integrated, a file
\* the result set leaves out holds the empty list of that kind, has one more
\* publish pending if its merged list changed and none more otherwise, and
\* keeps its other kinds and its record.
C10_UnmentionedFilesAreCleared ==
    [][last'.op \in Integrated =>
          \A u \in URIs :
              ~Mentioned(u)' =>
                  /\ IntegratedSlot(u)' = <<>>
                  /\ Pending(u)' = Pending(u) + (IF Merged(u)' # Merged(u) THEN 1 ELSE 0)
                  /\ \A k \in DiagnosticKind :
                         k # IntegratedKind' => Slot(u, k)' = Slot(u, k)
                  /\ Tracked(u)' = Tracked(u)]_vars

\* elm make reported a.elm alone: the record of b.elm is empty and its
\* publish is the latest pending
C10_Witness ==
    /\ last.op = "elmMakeDone"
    /\ last.result = <<[key |-> A, val |-> <<"m1">>]>>
    /\ Tracked(B)
    /\ Merged(B) = <<>>
    /\ timers # <<>>
    /\ timers[Len(timers)] = B

ConfigurationDisabled == last.op = "changeConfiguration" /\ disableElmLSDiagnostics
ConfigurationEnabled == last.op = "changeConfiguration" /\ ~disableElmLSDiagnostics
\* the ElmLS slot is what elmDiagnostics reports for the tree the forest holds
ElmLsIsCurrent(u) == Slot(u, ElmLS) = ElmLsCreateDiagnostics(forest[u].tree)

\* C11: a configuration change that disables the ElmLS diagnostics leaves
\* every file with the empty ElmLS list, whatever its tree, schedules one
\* publish for each file whose merged list changed and none for the others,
\* and keeps the other kinds and the records.
C11_DisableClearsElmLs ==
    [][ConfigurationDisabled' =>
          \A u \in URIs :
              /\ Slot(u, ElmLS)' = <<>>
              /\ Pending(u)' = Pending(u) + (IF Merged(u)' # Merged(u) THEN 1 ELSE 0)
              /\ \A k \in DiagnosticKind \ {ElmLS} : Slot(u, k)' = Slot(u, k)
              /\ Tracked(u)' = Tracked(u)]_vars

\* the ElmLS diagnostics were disabled while a.elm, whose tree has unused
\* declarations, also held an elm make list: that list is left, a publish pends
C11_Witness ==
    /\ ConfigurationDisabled
    /\ forest[A].tree = "unusedDecl"
    /\ Merged(A) = <<"m1">>
    /\ Pending(A) >= 1

\* C12 as stated: after a configuration change that enables the ElmLS
\* diagnostics, the ElmLS slot of every tracked file is what the rule engine
\* reports for its tree.
C12_EnableRecomputesTracked ==
    [][ConfigurationEnabled' =>
          \A u \in URIs : Tracked(u)' => ElmLsIsCurrent(u)']_vars

\* C12 amended: after a configuration change that enables the ElmLS
\* diagnostics, the ElmLS slot of every writeable file of the forest, tracked
\* before or not, is what the rule engine reports for its tree; the files
\* that are not writeable keep their ElmLS slot and get no record.
C12_EnableRecomputesWriteable ==
    [][ConfigurationEnabled' =>
          \A u \in URIs :
              IF forest[u].writeable
              THEN ElmLsIsCurrent(u)'
              ELSE /\ Slot(u, ElmLS)' = Slot(u, ElmLS)
                   /\ Tracked(u)' = Tracked(u)]_vars

\* the ElmLS diagnostics were enabled: a.elm got its list back, and b.elm,
\* tracked for its elm make list and not writeable, was left alone
C12_Witness ==
    /\ ConfigurationEnabled
    /\ Slot(A, ElmLS) = <<"ls1", "ls2">>
    /\ Pending(A) >= 1
    /\ Tracked(B)
    /\ Slot(B, ElmLS) = <<>>

\* the TypeInference slot is what typeInferenceDiagnostics reports for the tree
TypeInferenceIsCurrent(u) ==
    Slot(u, TypeInference) = TypeInferenceCreateDiagnostics(forest[u].tree)

\* elm-analyse was asked for the file of the handler exactly if it is resolved
\* and the file holds no elm make diagnostics
ElmAnalyseAskedIfClean ==
    updateFileCalls = IF elmAnalyseDiagnostics /\ Slot(last.uri, ElmMake) = <<>>
                      THEN <<last.uri>>
                      ELSE <<>>

\* the TypeInference list and, unless disabled, the ElmLS list of the file of
\* the handler are those of its tree
TreeDiagnosticsAreCurrent ==
    /\ TypeInferenceIsCurrent(last.uri)
    /\ disableElmLSDiagnostics \/ ElmLsIsCurrent(last.uri)

\* every source has been asked for the file of the handler and its lists are
\* in the slots
RecomputedFromEverySource ==
    /\ LatestApplied
    /\ elmAnalyseDiagnostics => updateFileCalls = <<last.uri>>
    /\ TreeDiagnosticsAreCurrent

\* C13 as stated: when the handling of an open or save event has finished,
\* elm make, elm-analyse, the type inference and the rule engine have each
\* been asked for the file and their lists applied.
C13_OpenOrSaveRecomputesAll ==
    [][last'.op = "elmMakeDone" => RecomputedFromEverySource']_vars

\* C13 amended: an open or save event starts one elm make build of the file
\* and nothing else; when the build answers, its lists are applied to the
\* ElmMake slots, no other kind is written, and elm-analyse is asked for the
\* file exactly if it is resolved and the file then holds no elm make list.
C13_OpenOrSaveBuildsThenAnalyses ==
    [][/\ last'.op = "openOrSave" =>
             /\ builds' = Append(builds, [uri |-> last'.uri, overtaken |-> FALSE])
             /\ currentDiagnostics' = currentDiagnostics
             /\ timers' = timers
             /\ updateFileCalls' = <<>>
       /\ last'.op = "elmMakeDone" =>
             /\ LatestApplied'
             /\ ElmAnalyseAskedIfClean'
             /\ \A u \in URIs : \A k \in DiagnosticKind \ {ElmMake} :
                    Slot(u, k)' = Slot(u, k)]_vars

\* the build of a.elm reported b.elm alone: elm-analyse was asked for a.elm;
\* the tree of a.elm has a type error its record does not hold
C13_Witness ==
    /\ last.op = "elmMakeDone"
    /\ last.uri = A
    /\ last.result = <<[key |-> B, val |-> <<"m1">>]>>
    /\ updateFileCalls = <<A>>
    /\ forest[A].tree = "typeError"
    /\ Slot(A, TypeInference) = <<>>

\* C14 as stated: a change event never asks elm make or elm-analyse.
C14_ChangeAsksNoExternalSource ==
    [][last'.op = "change" => (builds' = builds /\ updateFileCalls' = <<>>)]_vars

\* C14 amended: a change event is handled only when the trigger is "change";
\* it then asks elm-analyse for the file exactly if the file holds no elm make
\* list, starts no build and writes no slot. The TypeInference and ElmLS
\* lists are recomputed by the tree change, whatever the trigger: it starts
\* no build and asks no elm-analyse.
C14_ChangeAsksElmAnalyseOnly ==
    [][/\ last'.op = "change" =>
             /\ elmAnalyseTrigger = "change"
             /\ ElmAnalyseAskedIfClean'
             /\ builds' = builds
             /\ currentDiagnostics' = currentDiagnostics
             /\ timers' = timers
       /\ last'.op = "treeChange" =>
             /\ TreeDiagnosticsAreCurrent'
             /\ builds' = builds
             /\ updateFileCalls' = <<>>]_vars

\* a.elm changed while it held no elm make list: elm-analyse was asked
C14_Witness ==
    /\ last.op = "change"
    /\ last.uri = A
    /\ updateFileCalls = <<A>>
    /\ Tracked(A)
    /\ builds # <<>>

SourceFailed ==
    last.op \in {"elmMakeFailed", "updateFileFailed", "typeInferenceFailed", "elmLsFailed"}

C16_LookupFailureIsSkipped ==
    [][last'.op = "treeChangeLookupFailed" =>
          /\ currentDiagnostics' = currentDiagnostics
          /\ timers' = timers
          /\ sent' = <<>>
          /\ forest' = forest
          /\ IF last'.error = "NoWorkspaceContainsError"
             THEN last'.info /\ last'.thrown = ""
             ELSE last'.thrown = last'.error]_vars

\* the tree of c.elm, a file of no workspace, changed while a publish of
\* a.elm was pending: the error was logged and the handler returned
C16_Witness ==
    /\ last.op = "treeChangeLookupFailed"
    /\ last.uri \in Outside
    /\ last.error = "NoWorkspaceContainsError"
    /\ last.info
    /\ Pending(A) >= 1
    /\ Tracked(A)

(***************************************************************************)
(* C17: change detection is by multiset and not by list order. An update   *)
(* schedules a publish exactly when the bag of the file's flattened        *)
(* diagnostics after it differs from the bag before it, two diagnostics    *)
(* being the same when code, message, severity, range and the set of tags  *)
(* are; an update that replaces a slot by a permutation of its list        *)
(* schedules nothing.                                                      *)
(***************************************************************************)
DiagnosticNames == {"m1", "a1", "ti1", "ls1", "ls2", "ud", "du"}
Canonical == [d \in DiagnosticNames |-> [Diagnostic(d) EXCEPT !.tags = Elements(@)]]
FlatBag(s) ==
    [c \in {Canonical[s[i]] : i \in 1..Len(s)} |->
        Cardinality({i \in 1..Len(s) : Canonical[s[i]] = c})]
IsPermutation(s, t) ==
    /\ Len(s) = Len(t)
    /\ \A x \in Elements(s) \cup Elements(t) : Occurrences(s, x) = Occurrences(t, x)
FlatBagOfA == FlatBag(Merged(A))

C17_ChangeIsMultisetDifference ==
    [][last'.op = "update" =>
          /\ IF FlatBagOfA' # FlatBagOfA
             THEN timers' = Append(timers, A)
             ELSE timers' = timers
          /\ IsPermutation(last'.result[1].val, last'.replaced) => timers' = timers]_vars

\* a slot was replaced by its list in the other order, and by a diagnostic
\* with its tags in the other order, and nothing was scheduled
C17_Witness ==
    /\ last.op = "update"
    /\ timers = <<>>
    /\ \/ last.replaced = <<"ls1", "ls2">> /\ Slot(A, last.kind) = <<"ls2", "ls1">>
       \/ last.replaced = <<"ud">> /\ Slot(A, last.kind) = <<"du">>

(***************************************************************************)
(* C18: a publish replaces, it does not add. Every emission of every       *)
(* handler carries, for its uri, the lists of all four kinds the record    *)
(* holds, one after the other, and the empty list when the uri has no      *)
(* record; it is never the list of one kind among several.                 *)
(***************************************************************************)
C18_EmissionCarriesAllKinds ==
    \A i \in 1..Len(sent) :
        LET u == sent[i].uri
        IN IF Tracked(u)
           THEN /\ Len(sent[i].diagnostics)
                     = Len(Slot(u, ElmMake)) + Len(Slot(u, ElmAnalyse))
                       + Len(Slot(u, TypeInference)) + Len(Slot(u, ElmLS))
                /\ \A k \in DiagnosticKind :
                       \A j \in 1..Len(Slot(u, k)) :
                           Occurrences(sent[i].diagnostics, Slot(u, k)[j])
                               = Occurrences(Slot(u, k), Slot(u, k)[j])
           ELSE sent[i].diagnostics = <<>>

\* an emission for a.elm with the lists of three kinds in it
C18_Witness ==
    /\ Len(sent) = 1
    /\ sent[1].uri = A
    /\ Slot(A, ElmMake) # <<>>
    /\ Slot(A, ElmAnalyse) # <<>>
    /\ Slot(A, ElmLS) # <<>>
    /\ Len(sent[1].diagnostics) >= 4

(***************************************************************************)
(* The rule unused_top_level.                                              *)
(***************************************************************************)
TestedTopLevel == last.op = "testDiagnostics" /\ last.code = "unused_top_level"
Reported == {last.diagnostics[i].name : i \in 1..Len(last.diagnostics)}
Exposed(m, d) == m.exposing.all \/ d \in m.exposing.names
ReferencedByOther(m, d) == \E e \in Declared(m) \ {d} : d \in m.references[e]

Chains(m) ==
    UNION {[1..n -> Declared(m)] : n \in 1..Cardinality(Declared(m))}
IsChainTo(m, p, d) ==
    /\ Exposed(m, p[1])
    /\ p[Len(p)] = d
    /\ \A i \in 1..(Len(p) - 1) : p[i + 1] # p[i] /\ p[i + 1] \in m.references[p[i]]
WithoutEntry(m, c) ==
    /\ \A d \in c : ~Exposed(m, d)
    /\ \A e \in Declared(m) \ c : m.references[e] \cap c = {}

C20_UnusedIsUnreachable ==
    TestedTopLevel =>
        LET m == last.source
        IN /\ \A d \in Declared(m) :
                  d \in Reported <=> ~\E p \in Chains(m) : IsChainTo(m, p, d)
           /\ \A c \in SUBSET Declared(m) : WithoutEntry(m, c) => c \subseteq Reported
           /\ Reported \subseteq Declared(m)
           /\ m = OnlyUsedInSelf
                  => last.diagnostics = <<[code |-> "unused_top_level", name |-> "bar"]>>

\* bar and baz name one another and themselves, foo is exposed and names
\* neither: bar and baz are reported
C20_Witness ==
    /\ TestedTopLevel
    /\ last.source.declarations = <<"foo", "bar", "baz">>
    /\ last.source.exposing = [all |-> FALSE, names |-> {"foo"}]
    /\ last.source.references["foo"] = {}
    /\ last.source.references["bar"] = {"bar", "baz"}
    /\ last.source.references["baz"] = {"bar", "baz"}
    /\ Reported = {"bar", "baz"}

(***************************************************************************)
(* C21: unused_import is reported for an import exactly when it has no     *)
(* alias, no exposing clause, and the module has no qualified reference    *)
(* by the name of the imported module, as an expression, a pattern         *)
(* constructor or a type; an alias or an exposing clause, used or not,     *)
(* suppresses it. The tests of "unused import" get what they expect.       *)
(***************************************************************************)
TestedImport == last.op = "testDiagnostics" /\ last.code = "unused_import"
ImportOf(m, name) == m.imports[CHOOSE i \in 1..Len(m.imports) : m.imports[i].name = name]
Imported(m) == {m.imports[i].name : i \in 1..Len(m.imports)}
QualifiedUse(m, name) == \E p \in Positions : Qualified(name, p) \in m.qualified

C21_UnusedImportIffBareAndUnqualified ==
    TestedImport =>
        LET m == last.source
        IN /\ Reported \subseteq Imported(m)
           /\ Len(last.diagnostics) = Cardinality(Reported)
           /\ \A name \in Imported(m) :
                  name \in Reported
                      <=> /\ ImportOf(m, name).alias = ""
                          /\ ~ImportOf(m, name).hasExposing
                          /\ ~QualifiedUse(m, name)
           /\ m \in ImportTests \ {ImportUnused} => last.diagnostics = <<>>
           /\ m = ImportUnused
                  => last.diagnostics = <<[code |-> "unused_import", name |-> "Bar"]>>

\* an import of Bar with an exposing clause of a name the module never
\* uses, no alias and no qualified reference, is not reported, and the
\* bare import of Baz after it is
C21_Witness ==
    /\ TestedImport
    /\ Len(last.source.imports) = 2
    /\ last.source.imports[1] = Import("Bar", "", TRUE, {"baz"})
    /\ last.source.qualified = {}
    /\ Reported = {"Baz"}

(***************************************************************************)
(* The rule unused_value_constructor.                                      *)
(***************************************************************************)
TestedConstructor ==
    last.op = "testDiagnostics" /\ last.code = "unused_value_constructor"
Constructors(m) ==
    UNION {Elements(m.types[i].constructors) : i \in 1..Len(m.types)}
TypeOf(m, c) ==
    m.types[CHOOSE i \in 1..Len(m.types) : c \in Elements(m.types[i].constructors)]
ExposedWithAll(m, c) == m.exposing.all \/ TypeOf(m, c).exposed = "all"

\* C22 as stated: a value constructor is reported exactly when no
\* expression names it, no pattern matches it and its type is not exposed
\* with (..); a constructor that a pattern matches is not reported.
C22_ReportedIffNeitherNamedNorMatched ==
    TestedConstructor =>
        \A c \in Constructors(last.source) :
            c \in Reported
                <=> /\ c \notin last.source.constructed
                    /\ c \notin last.source.matched
                    /\ ~ExposedWithAll(last.source, c)

\* C22: a value constructor is reported unused_value_constructor exactly
\* when no expression names it and its type is not exposed with (..),
\* whether a pattern matches it or not; there is one diagnostic for every
\* such constructor, in the order of the file. The tests "unused but
\* exposed" and "used and not exposed" get nothing, "unused value
\* constructor not exposed" gets Thing and Other.
C22_ReportedIffNotConstructed ==
    TestedConstructor =>
        LET m == last.source
        IN /\ \A c \in Constructors(m) :
                  c \in Reported <=> c \notin m.constructed /\ ~ExposedWithAll(m, c)
           /\ Reported \subseteq Constructors(m)
           /\ Len(last.diagnostics) = Cardinality(Reported)
           /\ m \in {ConstructorUnusedButExposed, ConstructorUsedAndNotExposed}
                  => last.diagnostics = <<>>
           /\ m = ConstructorsNotExposed
                  => last.diagnostics
                         = <<[code |-> "unused_value_constructor", name |-> "Thing"],
                             [code |-> "unused_value_constructor", name |-> "Other"]>>

\* Thing occurs in a pattern and in no expression, Other in an expression:
\* Thing alone is reported
C22_Witness ==
    /\ TestedConstructor
    /\ Len(last.source.types) = 1
    /\ last.source.types[1] = Type("Some", <<"Thing", "Other">>, "type")
    /\ last.source.matched = {"Thing"}
    /\ last.source.constructed = {"Other"}
    /\ last.diagnostics = <<[code |-> "unused_value_constructor", name |-> "Thing"]>>

\* C23: a value constructor of a type that is not exposed with (..), which
\* occurs in patterns and in no expression, is reported
\* unused_value_constructor; the test "unused and not exposed", where Bar
\* destructures the argument of foo, gets Bar.
C23_MatchedOnlyIsReported ==
    TestedConstructor =>
        /\ \A c \in last.source.matched \ last.source.constructed :
               (c \in Constructors(last.source) /\ ~ExposedWithAll(last.source, c))
                   => \E i \in 1..Len(last.diagnostics) :
                          last.diagnostics[i]
                              = [code |-> "unused_value_constructor", name |-> c]
        /\ last.source = ConstructorUnusedAndNotExposed
               => last.diagnostics
                      = <<[code |-> "unused_value_constructor", name |-> "Bar"]>>

\* the test "unused and not exposed" has run and Bar was reported
C23_Witness ==
    /\ TestedConstructor
    /\ last.source = ConstructorUnusedAndNotExposed
    /\ last.source.matched = {"Bar"}
    /\ Reported = {"Bar"}

(***************************************************************************)
(* C24: no_uncurried_prefix is reported for a binary operator in prefix    *)
(* form that is applied to exactly two arguments, and not for one that is  *)
(* applied to one argument. The test with (+) 1 2 gets one diagnostic, the *)
(* test with (+) 1 gets none.                                              *)
(***************************************************************************)
TestedPrefix == last.op = "testDiagnostics" /\ last.code = "no_uncurried_prefix"

C24_PrefixWithTwoArgumentsIsReported ==
    TestedPrefix =>
        LET m == last.source
        IN /\ \A i \in 1..Len(m.prefixed) :
                  /\ m.prefixed[i].arguments = 2 => m.prefixed[i].operator \in Reported
                  /\ m.prefixed[i].arguments = 1 => m.prefixed[i].operator \notin Reported
           /\ m = PrefixWithTwoArgs
                  => last.diagnostics = <<[code |-> "no_uncurried_prefix", name |-> "+"]>>
           /\ m = PrefixWithOneArg => last.diagnostics = <<>>

\* (+) 1 and (++) a b in one module: (++) alone is reported
C24_Witness ==
    /\ TestedPrefix
    /\ last.source.prefixed = <<Prefix("+", 1), Prefix("++", 2)>>
    /\ Reported = {"++"}

(***************************************************************************)
(* C25: the type names of a port's signature are roots of the resolver. A  *)
(* type alias that is not exposed and that a port signature names is not   *)
(* reported unused_type_alias, also when nothing else names it; a type     *)
(* alias that is not exposed and that nothing names is reported. The test  *)
(* "used in port" gets nothing, the test "unused type alias" gets Person.  *)
(***************************************************************************)
TestedAlias == last.op = "testDiagnostics" /\ last.code = "unused_type_alias"
InPortSignature(m, a) == \E i \in 1..Len(m.ports) : a \in m.ports[i].signature
NamedByOther(m, a) == \E d \in (DOMAIN m.references) \ {a} : a \in m.references[d]

C25_PortSignatureKeepsAlias ==
    TestedAlias =>
        LET m == last.source
        IN /\ \A a \in Elements(m.aliases) :
                  /\ InPortSignature(m, a) => a \notin Reported
                  /\ (~Exposed(m, a) /\ ~InPortSignature(m, a) /\ ~NamedByOther(m, a))
                         => a \in Reported
           /\ m = AliasUsedInPort => last.diagnostics = <<>>
           /\ m = AliasUnused
                  => last.diagnostics = <<[code |-> "unused_type_alias", name |-> "Person"]>>

\* the port send names Person and nothing else does, neither alias is
\* exposed: Age is reported and Person is not
C25_Witness ==
    /\ TestedAlias
    /\ last.source.aliases = <<"Person", "Age">>
    /\ last.source.exposing = [all |-> FALSE, names |-> {"foo"}]
    /\ last.source.ports = <<Port("send", {"Person", "Cmd"})>>
    /\ \A d \in DOMAIN last.source.references : last.source.references[d] = {}
    /\ last.diagnostics = <<[code |-> "unused_type_alias", name |-> "Age"]>>

(***************************************************************************)
(* C26: a deletion is not undone by a stale result. When the build that    *)
(* was in flight while the deletion of a file was handled completes as the *)
(* next step, it was asked for before the deletion: the file stays without *)
(* a record and no publish is scheduled for it.                            *)
(***************************************************************************)
DeletedLast(u) ==
    /\ last.op = "changeWatchedFiles"
    /\ \E i \in 1..Len(last.changes) :
           last.changes[i].uri = u /\ last.changes[i].type = Deleted

C26_DeletionOutlastsStaleBuild ==
    [][last'.op = "elmMakeDone" =>
          \A u \in URIs :
              DeletedLast(u) /\ ~Tracked(u)
                  => ~Tracked(u)' /\ Pending(u)' = Pending(u)]_vars

(***************************************************************************)
(* C27: the client's view catches up. The list the client holds for a uri  *)
(* is that of the last emission for it. Every step that changes the merged *)
(* list of a uri, as a multiset, or creates or removes its record, leaves  *)
(* a publish pending for it or sends its new merged list itself; the first *)
(* non-empty update of a uri without record adds a pending publish; and a  *)
(* step that takes a pending publish of a uri sends the merged list the    *)
(* map holds for it then; and a pending publish of a uri leads to a        *)
(* timeout that sends its merged list. So once the events have stopped and *)
(* every pending timeout has fired, the last list sent for each uri is its *)
(* merged list, the empty list if it has no record.                        *)
(***************************************************************************)
SentFor(u) == {i \in 1..Len(sent) : sent[i].uri = u}
LastSentIsMerged(u) ==
    /\ SentFor(u) # {}
    /\ LET i == CHOOSE j \in SentFor(u) : \A k \in SentFor(u) : k <= j
       IN SameMultiset(sent[i].diagnostics, Merged(u))

\* a timeout set with setTimeout fires: the event loop runs every callback
\* that is due, however many other events arrive
SpecFair == Init /\ [][Next]_vars /\ WF_vars(OnTimeout)

C27_ClientViewCatchesUp ==
    /\ [][\A u \in URIs :
             /\ (~SameMultiset(Merged(u), Merged(u)') \/ Tracked(u)' # Tracked(u))
                    => Pending(u)' >= 1 \/ LastSentIsMerged(u)'
             /\ (~Tracked(u) /\ Tracked(u)') => Pending(u)' > Pending(u)
             /\ Pending(u)' < Pending(u) => LastSentIsMerged(u)'
             /\ SentFor(u)' # {} => LastSentIsMerged(u)']_vars
    /\ \A u \in URIs :
           Pending(u) >= 1 ~> (last.op = "timeout" /\ LastSentIsMerged(u))

\* b.elm got its record from an elm make result; its publish has fired with
\* the list of the record and nothing is pending any more
C27_Witness ==
    /\ last.op = "timeout"
    /\ timers = <<>>
    /\ sent[1].uri = B
    /\ sent[1].diagnostics # <<>>
    /\ LastSentIsMerged(B)

(***************************************************************************)
(* C28: a publish that is pending for a uri when the uri is deleted reads  *)
(* the map when it fires, after the deletion, and sends the empty list;    *)
(* and as long as nothing has given the uri a record again, every list     *)
(* sent for it is empty.                                                   *)
(***************************************************************************)
EmissionsOf(u) == SelectSeq(sent, LAMBDA e : e.uri = u)
AllEmpty(emissions) == \A i \in 1..Len(emissions) : emissions[i].diagnostics = <<>>

C28_PendingPublishAfterDeleteIsEmpty ==
    [][\A u \in URIs :
          /\ (DeletedLast(u) /\ last'.op = "timeout" /\ Head(timers) = u)
                 => (EmissionsOf(u)' # <<>> /\ AllEmpty(EmissionsOf(u))')
          /\ (~Tracked(u) /\ ~Tracked(u)') => AllEmpty(EmissionsOf(u))']_vars

\* a publish of a.elm was pending when a.elm was deleted; it has fired, with
\* the empty list, while b.elm keeps its record
C28_Witness ==
    /\ last.op = "timeout"
    /\ sent = <<[uri |-> A, diagnostics |-> <<>>]>>
    /\ ~Tracked(A)
    /\ Pending(A) = 0
    /\ Tracked(B)

(***************************************************************************)
(* C29: while the client settings disable the ElmLS diagnostics, from the  *)
(* constructor on or after a configuration change, no file holds an ElmLS  *)
(* diagnostic: the constructor and a tree change write no ElmLS list then. *)
(* A tree change still writes the TypeInference list of the new tree,      *)
(* whatever the setting, and leaves the ElmLS slot as it was when the      *)
(* diagnostics are disabled.                                               *)
(***************************************************************************)
TypeInferenceOfLastIsCurrent == TypeInferenceIsCurrent(last.uri)
NoElmLsAnywhere == \A u \in URIs : Slot(u, ElmLS) = <<>>

C29_DisabledMeansNoElmLs ==
    /\ [](disableElmLSDiagnostics => NoElmLsAnywhere)
    /\ [][last'.op = "treeChange" =>
              /\ TypeInferenceOfLastIsCurrent'
              /\ disableElmLSDiagnostics =>
                     \A u \in URIs : Slot(u, ElmLS)' = Slot(u, ElmLS)]_vars

\* the ElmLS diagnostics are disabled and the tree of a.elm changed to one
\* with unused declarations: its record holds nothing, the TypeInference
\* list it held is gone and a publish pends
C29_Witness ==
    /\ disableElmLSDiagnostics
    /\ last.op = "treeChange"
    /\ last.uri = A
    /\ forest[A].tree = "unusedDecl"
    /\ Tracked(A)
    /\ Merged(A) = <<>>
    /\ Pending(A) >= 1

(***************************************************************************)
(* C30: elm-analyse is asked for a file only by the handler of an open,    *)
(* save or change event of that file, only when elm-analyse is configured  *)
(* (the trigger is not "never") and only when the file holds no elm make   *)
(* diagnostic at that point; for open and save that point is after the     *)
(* result of the event's build is applied, so a build that reports the     *)
(* file itself asks nothing. A file that holds an elm make diagnostic is   *)
(* never passed to elm-analyse.                                            *)
(***************************************************************************)
HandlesDocument == last.op \in {"elmMakeDone", "change"}
BuildReportsItsFile ==
    /\ last.op = "elmMakeDone"
    /\ MapHas(last.result, last.uri)
    /\ MapGet(last.result, last.uri) # <<>>

C30_ElmAnalyseOnlyAfterCleanBuild ==
    /\ updateFileCalls # <<>> =>
           /\ HandlesDocument
           /\ elmAnalyseTrigger # "never"
           /\ updateFileCalls = <<last.uri>>
           /\ Slot(last.uri, ElmMake) = <<>>
    /\ \A u \in URIs :
           Slot(u, ElmMake) # <<>> => \A i \in 1..Len(updateFileCalls) : updateFileCalls[i] # u
    /\ BuildReportsItsFile => updateFileCalls = <<>>

\* elm-analyse is configured and the build of a.elm reported a.elm itself:
\* the list is in its slot and elm-analyse is not asked
C30_Witness ==
    /\ BuildReportsItsFile
    /\ last.uri = A
    /\ elmAnalyseTrigger = "change"
    /\ Slot(A, ElmMake) = <<"m1">>
    /\ updateFileCalls = <<>>
    /\ ~last.overtaken

====
